---- MODULE Spec2Model ----
(***************************************************************************)
(* Model of trayicon-rs: the builder facade and live-update API of         *)
(* src/src/lib.rs and the Windows tray window / message dispatcher of      *)
(* src/src/sys/windows/wintrayicon.rs.                                     *)
(*                                                                         *)
(* Every handler is one atomic action: all messages are dispatched on the  *)
(* single pump thread.  (SpecThreads alone splits winproc and drop into    *)
(* their statements, for a drop on a second thread.)                       *)
(* The two variables `last` and `effects` record the                       *)
(* operation executed by the most recent step, its result, and the         *)
(* sequence of external calls it made (channel sends, native calls), so    *)
(* that statements about one operation are state or action predicates.     *)
(*                                                                         *)
(* Message parameters are drawn from values below 2^31, on which the       *)
(* source's casts `wparam as u32` and `lparam as u32` are the identity.    *)
(***************************************************************************)
EXTENDS Integers, Sequences, FiniteSets, TLC

\* ------------------------------------------------------------------ bounds

\* Capacity of the event queue: the capacity of a bounded crossbeam channel,
\* and the number of undelivered events the model lets an unbounded channel hold.
MaxQueue == 1

\* Number of command ids the menu builder may hand out before the model stops
\* building further menus.
MaxCmdIds == 6

\* --------------------------------------------------------------- constants

\* Option<T>
None == [some |-> FALSE]
Some(v) == [some |-> TRUE, val |-> v]

NULL == 0

\* The window handle CreateWindowExW returns on success.
TheHwnd == 1

WM_CREATE == 1
WM_CLOSE == 16
WM_NCCREATE == 129
WM_TIMER == 275
WM_COMMAND == 273
WM_MOUSEMOVE == 512
WM_LBUTTONUP == 514
WM_LBUTTONDBLCLK == 515
WM_RBUTTONUP == 517
WM_USER_TRAYICON == 1025

\* The identifier RegisterWindowMessageA("TaskbarCreated") returns (a value of the
\* registered-message range 0xC000..0xFFFF chosen by the system).
TaskbarCreatedId == 49152

\* Another registered message of the same range, not the taskbar one.
OtherRegisteredId == 49153

\* First command id the menu builder hands out.
FirstCmdId == 1000

Kinds == {"Std", "Winit", "Crossbeam"}

\* ------------------------------------------------------------------- icons

\* An Icon is its source buffer (address and bytes) and the native icon decoded
\* from it.  I1 and I3 are two buffers holding the same bytes.
I1 == [addr |-> "b1", bytes |-> "ico_a", sys |-> "h1"]
I2 == [addr |-> "b2", bytes |-> "ico_b", sys |-> "h2"]
I3 == [addr |-> "b3", bytes |-> "ico_a", sys |-> "h3"]

Icons == {I1, I2, I3}

\* impl PartialEq for Icon: Option<&[u8]> equality compares the slices' bytes.
IconEq(a, b) == a.bytes = b.bytes

Ok(v) == [ok |-> TRUE, val |-> v]
Err(e) == [ok |-> FALSE, err |-> e]

\* ------------------------------------------------------------------- menus

Separator == [kind |-> "Separator"]
Item(n, e) == [kind |-> "Item", name |-> n, event |-> e]
CheckableItem(n, c, e) == [kind |-> "CheckableItem", name |-> n, is_checked |-> c, event |-> e]
ChildMenu(n, ch) == [kind |-> "ChildMenu", name |-> n, children |-> ch]

EmptyModel == << >>
M1 == << Item("A", "EvA"), Separator, CheckableItem("B", FALSE, "EvB") >>
M2 == << Item("B", "EvB"), ChildMenu("More", << Item("A", "EvA") >>) >>

MenuModels == {EmptyModel, M1, M2}

\* MenuBuilder::build: a depth-first walk that gives every item the next value of
\* a process-wide counter and records id -> event for the clickable items.
\* acc is [ids, next]; ids is a set of <<id, event>> pairs.
RECURSIVE build_menu_inner(_, _)
build_menu_inner(items, acc) ==
  IF items = << >> THEN acc
  ELSE LET it == Head(items)
           id == acc.next
           one == CASE it.kind \in {"Item", "CheckableItem"} ->
                         [ids |-> acc.ids \cup {<<id, it.event>>}, next |-> id + 1]
                    [] it.kind = "ChildMenu" ->
                         build_menu_inner(it.children, [ids |-> acc.ids, next |-> id + 1])
                    [] OTHER -> [ids |-> acc.ids, next |-> id + 1]
       IN build_menu_inner(Tail(items), one)

\* The MenuSys of a model built with the counter at `next`: the id table (a
\* function), the native tree (named by its model) and the counter afterwards.
build_menu(model, next) ==
  LET r == build_menu_inner(model, [ids |-> {}, next |-> next])
      dom == {p[1] : p \in r.ids}
  IN [ids |-> [i \in dom |-> (CHOOSE p \in r.ids : p[1] = i)[2]],
      items |-> model,
      next |-> r.next]

\* The name under which the effects show a native tree: its first item's name.
MenuName(model) == IF model = << >> THEN "" ELSE Head(model).name

\* MenuSys { ids, menu }
MenuSys(b) == [ids |-> b.ids, menu |-> b.items, name |-> MenuName(b.items)]

\* ----------------------------------------------------------------- channel

\* std::sync::mpsc::Sender::send: Err when the receiver is gone; the queue is unbounded.
SendStd(c, e) ==
  IF c.alive THEN [chan |-> [c EXCEPT !.queue = Append(@, e)], outcome |-> "returned"]
  ELSE [chan |-> c, outcome |-> "returned"]

\* winit EventLoopProxy::send_event: Err(EventLoopClosed) when the loop is gone.
SendWinit(c, e) ==
  IF c.alive THEN [chan |-> [c EXCEPT !.queue = Append(@, e)], outcome |-> "returned"]
  ELSE [chan |-> c, outcome |-> "returned"]

\* try_send whose Result is unwrapped: a full or disconnected channel panics.
SendCrossbeam_Unwrap(c, e) ==
  IF c.alive /\ Len(c.queue) < MaxQueue
  THEN [chan |-> [c EXCEPT !.queue = Append(@, e)], outcome |-> "returned"]
  ELSE [chan |-> c, outcome |-> "panicked"]

\* crossbeam Sender::try_send: Err(Disconnected) or Err(Full), never blocks.
SendCrossbeam(c, e) ==
  IF c.alive /\ Len(c.queue) < MaxQueue
  THEN [chan |-> [c EXCEPT !.queue = Append(@, e)], outcome |-> "returned"]
  ELSE [chan |-> c, outcome |-> "returned"]

\* TrayIconSender::send: every variant discards the Result (`let _ =`).
send(c, e) ==
  CASE c.kind = "Std" -> SendStd(c, e)
    [] c.kind = "Winit" -> SendWinit(c, e)
    [] c.kind = "Crossbeam" -> SendCrossbeam(c, e)

\* The send would not deliver: receiver dropped, or bounded queue full.
SendFails(c) == ~c.alive \/ (c.kind = "Crossbeam" /\ Len(c.queue) >= MaxQueue)

\* ------------------------------------------------- notification-area icon

\* WinNotifyIcon::new: the registration record, not yet added to the shell.
NotifyNew(hicon) == [added |-> FALSE, hwnd |-> NULL, icon |-> hicon, tooltip |-> ""]

\* WinNotifyIcon::add: registers (or re-registers) the icon for the window.
NotifyAdd(n, hwnd) == [n EXCEPT !.added = TRUE, !.hwnd = hwnd]

\* WinNotifyIcon::remove: deregisters; a second call changes nothing.
NotifyRemove(n) == [n EXCEPT !.added = FALSE]

\* WinNotifyIcon::set_icon: updates the image in place, or fails and changes nothing.
NotifySetIcon(n, hicon, ok) ==
  [notify |-> IF ok THEN [n EXCEPT !.icon = hicon] ELSE n, ret |-> ok]

\* WinNotifyIcon::set_tooltip: updates the text, or fails and changes nothing.
NotifySetTooltip(n, text, ok) ==
  [notify |-> IF ok THEN [n EXCEPT !.tooltip = text] ELSE n, ret |-> ok]

Tooltips == {"tip"}

\* ----------------------------------------------------------------- effects

\* One external call made by an operation: its name, its argument, what it returned.
Fx(call, arg, ret) == [call |-> call, arg |-> arg, ret |-> ret]

BoolStr(b) == IF b THEN "true" ELSE "false"

\* The calls named `call` among the effects fx, in order.
RECURSIVE Calls(_, _)
Calls(fx, call) ==
  IF fx = << >> THEN << >>
  ELSE IF Head(fx).call = call THEN <<Head(fx)>> \o Calls(Tail(fx), call)
  ELSE Calls(Tail(fx), call)

\* -------------------------------------------------------------- dispatcher

LOWORD(x) == x % 65536
HIWORD(x) == (x \div 65536) % 65536

\* One `self.sender.send(e)` of a handler, and a handler path that sends nothing.
\* Both give [chan, outcome, fx].
Emit(c, e) == send(c, e) @@ [fx |-> << Fx("send", e, "") >>]

Quiet(c) == [chan |-> c, outcome |-> "returned", fx |-> << >>]

\* wndproc, WM_USER_TRAYICON / WM_LBUTTONUP
OnLButtonUp(s, c) ==
  IF s.on_click.some THEN Emit(c, s.on_click.val) ELSE Quiet(c)

\* Right click that shows the menu instead of sending the event when both are bound.
OnRButtonUp_EitherOr(s, c) ==
  IF s.menu.some
  THEN [chan |-> c, outcome |-> "returned",
        fx |-> << Fx("GetCursorPos", "", ""),
                  Fx("SetForegroundWindow", "hwnd", ""),
                  Fx("track", s.menu.val.name, "") >>]
  ELSE IF s.on_right_click.some THEN Emit(c, s.on_right_click.val) ELSE Quiet(c)

\* wndproc, WM_RBUTTONUP, second half: show the menu, if it's there.  a is the
\* outcome of the first half.
ShowMenuIfBound(s, a) ==
  IF a.outcome = "returned" /\ s.menu.some
  THEN [chan |-> a.chan, outcome |-> a.outcome,
        fx |-> a.fx \o << Fx("GetCursorPos", "", ""),
                          Fx("SetForegroundWindow", "hwnd", ""),
                          Fx("track", s.menu.val.name, "") >>]
  ELSE a

\* wndproc, WM_USER_TRAYICON / WM_RBUTTONUP
OnRButtonUp(s, c) ==
  ShowMenuIfBound(s, IF s.on_right_click.some THEN Emit(c, s.on_right_click.val)
                     ELSE Quiet(c))

\* Double click that forwards the single-click binding.
OnLButtonDblClk_SendsClick(s, c) ==
  IF s.on_click.some THEN Emit(c, s.on_click.val) ELSE Quiet(c)

\* wndproc, WM_USER_TRAYICON / WM_LBUTTONDBLCLK
OnLButtonDblClk(s, c) ==
  IF s.on_double_click.some THEN Emit(c, s.on_double_click.val) ELSE Quiet(c)

\* wndproc, WM_USER_TRAYICON: the mouse message is in lparam.
OnTrayIcon(s, c, lparam) ==
  IF lparam = WM_LBUTTONUP THEN OnLButtonUp(s, c)
  ELSE IF lparam = WM_RBUTTONUP THEN OnRButtonUp(s, c)
  ELSE IF lparam = WM_LBUTTONDBLCLK THEN OnLButtonDblClk(s, c)
  ELSE Quiet(c)

\* WM_COMMAND with the two words of wparam exchanged.
OnCommand_SwappedWords(s, c, wparam) ==
  LET identifier == HIWORD(wparam)
      cmd == LOWORD(wparam)
  IN IF cmd = 0 /\ s.menu.some /\ identifier \in DOMAIN s.menu.val.ids
     THEN Emit(c, s.menu.val.ids[identifier])
     ELSE Quiet(c)

\* wndproc, WM_COMMAND: a menu command has notification code 0 in the high word.
OnCommand(s, c, wparam) ==
  LET identifier == LOWORD(wparam)
      cmd == HIWORD(wparam)
  IN IF cmd = 0 /\ s.menu.some /\ identifier \in DOMAIN s.menu.val.ids
     THEN Emit(c, s.menu.val.ids[identifier])
     ELSE Quiet(c)

\* A guard that only tests that the taskbar message has been registered.
IsTaskbarCreated_AnyMessage(s, msg) == s.msg_taskbarcreated.some

\* wndproc, the arm `x if Some(x) == self.msg_taskbarcreated`
IsTaskbarCreated(s, msg) == Some(msg) = s.msg_taskbarcreated

\* wndproc, TaskbarCreated: add the icon again.
OnTaskbarCreated(s) ==
  [sys |-> [s EXCEPT !.notify_icon = NotifyAdd(@, s.hwnd)],
   fx |-> << Fx("add", "hwnd", "") >>]

\* The LRESULT of a handler that ran to its end (`0` after the match).
Handled(s, a) ==
  [sys |-> s, chan |-> a.chan, fx |-> a.fx,
   result |-> IF a.outcome = "returned" THEN "0" ELSE "unwound"]

\* wndproc whose last arm reports the message as handled.
wndproc_SwallowsUnknown(s, c, msg, wparam, lparam) ==
  IF msg = WM_CREATE
  THEN [sys |-> [s EXCEPT !.notify_icon = NotifyAdd(@, s.hwnd),
                          !.msg_taskbarcreated = Some(TaskbarCreatedId)],
        chan |-> c,
        fx |-> << Fx("add", "hwnd", ""),
                  Fx("RegisterWindowMessageA", "TaskbarCreated", "") >>,
        result |-> "0"]
  ELSE IF msg = WM_USER_TRAYICON THEN Handled(s, OnTrayIcon(s, c, lparam))
  ELSE IF msg = WM_COMMAND THEN Handled(s, OnCommand(s, c, wparam))
  ELSE IF IsTaskbarCreated(s, msg)
  THEN OnTaskbarCreated(s) @@ [chan |-> c, result |-> "0"]
  ELSE [sys |-> s, chan |-> c, fx |-> << >>, result |-> "0"]

\* WinTrayIcon::wndproc: the arms are tried in the order of the match.
wndproc(s, c, msg, wparam, lparam) ==
  IF msg = WM_CREATE
  THEN [sys |-> [s EXCEPT !.notify_icon = NotifyAdd(@, s.hwnd),
                          !.msg_taskbarcreated = Some(TaskbarCreatedId)],
        chan |-> c,
        fx |-> << Fx("add", "hwnd", ""),
                  Fx("RegisterWindowMessageA", "TaskbarCreated", "") >>,
        result |-> "0"]
  ELSE IF msg = WM_USER_TRAYICON THEN Handled(s, OnTrayIcon(s, c, lparam))
  ELSE IF msg = WM_COMMAND THEN Handled(s, OnCommand(s, c, wparam))
  ELSE IF IsTaskbarCreated(s, msg)
  THEN OnTaskbarCreated(s) @@ [chan |-> c, result |-> "0"]
  ELSE [sys |-> s, chan |-> c,
        fx |-> << Fx("DefWindowProcW", "", "") >>,
        result |-> "DefWindowProcW"]

\* The value of GWL_USERDATA that points at the boxed WinTrayIcon.
WindowPtr == 1

\* winproc, WM_CREATE: what SetWindowLongPtrW(hwnd, GWL_USERDATA, window) adds to
\* the outcome r of the instance handler called after it.
AfterSetUserData(r, w) ==
  [fx |-> << Fx("SetWindowLongPtrW", "GWL_USERDATA", "window") >> \o r.fx,
   userdata |-> WindowPtr, window |-> w.window] @@ r

\* winproc whose WM_CREATE arm calls the instance handler first and stores
\* window.hwnd afterwards.
winproc_DispatchBeforeHwnd(w, hwnd, msg, wparam, lparam) ==
  IF msg = WM_CREATE
  THEN [sys |-> [wndproc(w.sys, w.chan, msg, wparam, lparam).sys EXCEPT !.hwnd = hwnd]]
         @@ AfterSetUserData(wndproc(w.sys, w.chan, msg, wparam, lparam), w)
  ELSE IF msg = WM_CLOSE
  THEN [sys |-> w.sys, chan |-> w.chan, userdata |-> w.userdata, window |-> "destroyed",
        fx |-> << Fx("DestroyWindow", "hwnd", "") >>, result |-> "0"]
  ELSE IF w.userdata # NULL
  THEN wndproc(w.sys, w.chan, msg, wparam, lparam)
         @@ [userdata |-> w.userdata, window |-> w.window]
  ELSE [sys |-> w.sys, chan |-> w.chan, userdata |-> w.userdata, window |-> w.window,
        fx |-> << Fx("DefWindowProcW", "", "") >>, result |-> "DefWindowProcW"]

\* winproc whose WM_CLOSE arm goes through the back-pointer like the other
\* messages: with the back-pointer cleared the window is left alone.
winproc_CloseViaBackPointer(w, hwnd, msg, wparam, lparam) ==
  IF msg = WM_CREATE
  THEN AfterSetUserData(
         wndproc([w.sys EXCEPT !.hwnd = hwnd], w.chan, msg, wparam, lparam), w)
  ELSE IF msg = WM_CLOSE /\ w.userdata # NULL
  THEN [sys |-> w.sys, chan |-> w.chan, userdata |-> w.userdata, window |-> "destroyed",
        fx |-> << Fx("DestroyWindow", "hwnd", "") >>, result |-> "0"]
  ELSE IF msg # WM_CLOSE /\ w.userdata # NULL
  THEN wndproc(w.sys, w.chan, msg, wparam, lparam)
         @@ [userdata |-> w.userdata, window |-> w.window]
  ELSE [sys |-> w.sys, chan |-> w.chan, userdata |-> w.userdata, window |-> w.window,
        fx |-> << >>, result |-> "0"]

\* winproc that reports a message as handled when the back-pointer is zero.
winproc_NullIsHandled(w, hwnd, msg, wparam, lparam) ==
  IF msg = WM_CREATE
  THEN AfterSetUserData(
         wndproc([w.sys EXCEPT !.hwnd = hwnd], w.chan, msg, wparam, lparam), w)
  ELSE IF msg = WM_CLOSE
  THEN [sys |-> w.sys, chan |-> w.chan, userdata |-> w.userdata, window |-> "destroyed",
        fx |-> << Fx("DestroyWindow", "hwnd", "") >>, result |-> "0"]
  ELSE IF w.userdata # NULL
  THEN wndproc(w.sys, w.chan, msg, wparam, lparam)
         @@ [userdata |-> w.userdata, window |-> w.window]
  ELSE [sys |-> w.sys, chan |-> w.chan, userdata |-> w.userdata, window |-> w.window,
        fx |-> << >>, result |-> "0"]

\* WinTrayIcon::winproc, the window procedure.  w is the world it acts on:
\* [sys, chan, userdata, window]; the result adds fx and result.  For WM_CREATE
\* lparam's lpCreateParams is the boxed WinTrayIcon, which is w.sys: its hwnd
\* and the window's back-pointer are set, then the instance handler is called.
winproc(w, hwnd, msg, wparam, lparam) ==
  IF msg = WM_CREATE
  THEN AfterSetUserData(
         wndproc([w.sys EXCEPT !.hwnd = hwnd], w.chan, msg, wparam, lparam), w)
  ELSE IF msg = WM_CLOSE
  THEN [sys |-> w.sys, chan |-> w.chan, userdata |-> w.userdata, window |-> "destroyed",
        fx |-> << Fx("DestroyWindow", "hwnd", "") >>, result |-> "0"]
  ELSE IF w.userdata # NULL
  THEN wndproc(w.sys, w.chan, msg, wparam, lparam)
         @@ [userdata |-> w.userdata, window |-> w.window]
  ELSE [sys |-> w.sys, chan |-> w.chan, userdata |-> w.userdata, window |-> w.window,
        fx |-> << Fx("DefWindowProcW", "", "") >>, result |-> "DefWindowProcW"]

\* The outcome r of a call, with the calls made before it put in front.
After(fx, r) == [fx |-> fx \o r.fx] @@ r

\* CreateWindowExW, the creation message: r0 is the world after WM_NCCREATE.
DeliverCreate(r0) == After(r0.fx, winproc(r0, TheHwnd, WM_CREATE, 0, 0))

\* CreateWindowExW with lpCreateParams = the box: on success the system delivers
\* WM_NCCREATE and then WM_CREATE to winproc before it returns the handle; on
\* failure it returns 0.
CreateWindowExW(w0, createOk) ==
  IF createOk
  THEN DeliverCreate(winproc(w0, TheHwnd, WM_NCCREATE, 0, 0)) @@ [hwnd |-> TheHwnd]
  ELSE [sys |-> w0.sys, chan |-> w0.chan, userdata |-> NULL, window |-> "none",
        fx |-> << >>, result |-> "0", hwnd |-> NULL]

\* Drop::drop with the window message posted before the back-pointer is cleared.
drop_PostsBeforeDetach(s) ==
  [sys |-> [s EXCEPT !.notify_icon = NotifyRemove(@)],
   userdata |-> NULL,
   post |-> IF s.hwnd # NULL THEN << <<WM_CLOSE, 0, 0>> >> ELSE << >>,
   fx |-> << Fx("notify_icon.remove", "", ""),
             Fx("PostMessageW", "WM_CLOSE", ""),
             Fx("SetWindowLongPtrW", "GWL_USERDATA", "") >>]

\* impl Drop for WinTrayIcon: remove the registration, clear the window's
\* back-pointer, post WM_CLOSE.  post is what reaches the window's queue: with
\* hwnd 0 (no window was created) PostMessageW has no window to post to.
drop(s) ==
  [sys |-> [s EXCEPT !.notify_icon = NotifyRemove(@)],
   userdata |-> NULL,
   post |-> IF s.hwnd # NULL THEN << <<WM_CLOSE, 0, 0>> >> ELSE << >>,
   fx |-> << Fx("notify_icon.remove", "", ""),
             Fx("SetWindowLongPtrW", "GWL_USERDATA", ""),
             Fx("PostMessageW", "WM_CLOSE", "") >>]

\* WinTrayIcon::new, after CreateWindowExW: `hwnd == 0 || window.hwnd == 0`.
\* Returning Err drops the box, which runs Drop::drop on it.
NewResult(w1) ==
  IF w1.hwnd = NULL \/ w1.sys.hwnd = NULL
  THEN [res |-> Err("OsError"),
        w |-> [sys |-> drop(w1.sys).sys, fx |-> w1.fx \o drop(w1.sys).fx] @@ w1]
  ELSE [res |-> Ok(w1.sys), w |-> w1]

\* WinTrayIcon::new: box the state with hwnd 0 and create the window.
new(c, menu, notify_icon, on_click, on_double_click, on_right_click, createOk) ==
  NewResult(CreateWindowExW(
    [sys |-> [hwnd |-> NULL, menu |-> menu, notify_icon |-> notify_icon,
              on_click |-> on_click, on_double_click |-> on_double_click,
              on_right_click |-> on_right_click, msg_taskbarcreated |-> None],
     chan |-> c, userdata |-> NULL, window |-> "exists"],
    createOk))

\* ------------------------------------------------------------------ facade

\* Image buffers the host may hand to icon_from_buffer: B1 holds a valid .ico
\* image (the buffer of I1), BadBuffer does not.
B1 == [addr |-> "b1", bytes |-> "ico_a"]
BadBuffer == [addr |-> "b0", bytes |-> "junk"]

\* sys::IconSys::from_buffer: the native icon decoded from the buffer, or
\* Error::IconLoadingFailed.
IconSys_from_buffer(buffer) ==
  IF buffer.bytes = "junk" THEN Err("IconLoadingFailed") ELSE Ok("h1")

\* Icon::from_buffer: `sys: sys::IconSys::from_buffer(..)?` hands the error on.
from_buffer(buffer) ==
  IF IconSys_from_buffer(buffer).ok
  THEN Ok([addr |-> buffer.addr, bytes |-> buffer.bytes,
           sys |-> IconSys_from_buffer(buffer).val])
  ELSE Err(IconSys_from_buffer(buffer).err)

\* TrayIconBuilder::new
builder_new ==
  [icon |-> Err("IconMissing"), menu |-> None, on_click |-> None,
   on_double_click |-> None, on_right_click |-> None, sender |-> None]

\* TrayIconBuilder::icon
builder_icon(b, i) == [b EXCEPT !.icon = Ok(i)]

\* icon_from_buffer that keeps the icon it has when the buffer does not decode.
builder_icon_from_buffer_KeepsOnFailure(b, buffer) ==
  IF from_buffer(buffer).ok THEN [b EXCEPT !.icon = from_buffer(buffer)] ELSE b

\* TrayIconBuilder::icon_from_buffer: stores the Result, Ok or Err.
builder_icon_from_buffer(b, buffer) == [b EXCEPT !.icon = from_buffer(buffer)]

\* TrayIconBuilder::menu
builder_menu(b, m) == [b EXCEPT !.menu = Some(m)]

\* TrayIconBuilder::on_click, on_double_click, on_right_click
builder_on_click(b, e) == [b EXCEPT !.on_click = Some(e)]
builder_on_double_click(b, e) == [b EXCEPT !.on_double_click = Some(e)]
builder_on_right_click(b, e) == [b EXCEPT !.on_right_click = Some(e)]

\* TrayIconBuilder::sender, sender_winit, sender_crossbeam
builder_sender(b, k) == [b EXCEPT !.sender = Some(k)]

\* One call of an icon setter: icon(I1) or icon_from_buffer(buffer).
IconCall(b, call) ==
  IF call.op = "icon" THEN builder_icon(b, call.arg)
  ELSE builder_icon_from_buffer(b, call.arg)

RECURSIVE IconCalls(_, _)
IconCalls(b, calls) ==
  IF calls = << >> THEN b ELSE IconCalls(IconCall(b, Head(calls)), Tail(calls))

\* The setters the host calls or not: o is Some(argument), or None for no call.
MenuCall(b, o) == IF o.some THEN builder_menu(b, o.val) ELSE b
OnClickCall(b, o) == IF o.some THEN builder_on_click(b, o.val) ELSE b
OnDoubleClickCall(b, o) == IF o.some THEN builder_on_double_click(b, o.val) ELSE b
OnRightClickCall(b, o) == IF o.some THEN builder_on_right_click(b, o.val) ELSE b
SenderCall(b, o) == IF o.some THEN builder_sender(b, o.val) ELSE b

\* build_trayicon, last step: the notification icon and the window.  built is
\* [menu, next]: the native menu (if any) and the id counter after building it.
BuildWindow(b, c, built, createOk) ==
  new(c, built.menu, NotifyNew(b.icon.val.sys),
      b.on_click, b.on_double_click, b.on_right_click, createOk)
    @@ [next |-> built.next]

\* build_trayicon, the native menu: none for no model or an empty model.
BuildMenu(b, next) ==
  IF b.menu.some /\ b.menu.val # EmptyModel
  THEN [menu |-> Some(MenuSys(build_menu(b.menu.val, next))),
        next |-> build_menu(b.menu.val, next).next]
  ELSE [menu |-> None, next |-> next]

BuildFails(c, next, e) ==
  [res |-> Err(e), next |-> next,
   w |-> [sys |-> None, chan |-> c, userdata |-> NULL, window |-> "none", fx |-> << >>]]

\* sys::build_trayicon: icon present, sender present, then the native menu (if
\* any), the notification icon and the window.  Gives [res, next, w].
build_trayicon(b, c, next, buildOk, createOk) ==
  IF ~b.icon.ok THEN BuildFails(c, next, b.icon.err)
  ELSE IF ~b.sender.some THEN BuildFails(c, next, "SenderMissing")
  ELSE IF b.menu.some /\ b.menu.val # EmptyModel /\ ~buildOk
  THEN BuildFails(c, next, "OsError")
  ELSE BuildWindow(b, c, BuildMenu(b, next), createOk)

\* WinTrayIcon::set_icon.  nativeOk: whether the shell accepts the update.
sys_set_icon(s, icon, nativeOk) ==
  LET n == NotifySetIcon(s.notify_icon, icon.sys, nativeOk)
  IN [sys |-> [s EXCEPT !.notify_icon = n.notify],
      fx |-> << Fx("notify_icon.set_icon", icon.sys, BoolStr(n.ret)) >>,
      result |-> IF ~n.ret THEN "IconLoadingFailed" ELSE "Ok"]

\* WinTrayIcon::set_tooltip.
sys_set_tooltip(s, tooltip, nativeOk) ==
  LET n == NotifySetTooltip(s.notify_icon, tooltip, nativeOk)
  IN [sys |-> [s EXCEPT !.notify_icon = n.notify],
      fx |-> << Fx("notify_icon.set_tooltip", tooltip, BoolStr(n.ret)) >>,
      result |-> IF ~n.ret THEN "OsError" ELSE "Ok"]

\* set_menu without the is_empty test: an empty model is built like any other.
sys_set_menu_NoEmptyCheck(s, menu, next, buildOk) ==
  IF ~buildOk
  THEN [sys |-> s, next |-> next,
        fx |-> << Fx("sys.set_menu", MenuName(menu), "OsError") >>, result |-> "OsError"]
  ELSE LET b == build_menu(menu, next)
       IN [sys |-> [s EXCEPT !.menu = Some(MenuSys(b))], next |-> b.next,
           fx |-> << Fx("sys.set_menu", MenuName(menu), "Ok") >>, result |-> "Ok"]

\* set_menu that adds the new ids to the table of the menu it replaces.
sys_set_menu_KeepsOldIds(s, menu, next, buildOk) ==
  IF menu = EmptyModel
  THEN [sys |-> [s EXCEPT !.menu = None], next |-> next,
        fx |-> << Fx("sys.set_menu", MenuName(menu), "Ok") >>, result |-> "Ok"]
  ELSE IF ~buildOk
  THEN [sys |-> s, next |-> next,
        fx |-> << Fx("sys.set_menu", MenuName(menu), "OsError") >>, result |-> "OsError"]
  ELSE LET b == build_menu(menu, next)
           old == IF s.menu.some THEN s.menu.val.ids ELSE << >>
       IN [sys |-> [s EXCEPT !.menu = Some([MenuSys(b) EXCEPT !.ids = b.ids @@ old])],
           next |-> b.next,
           fx |-> << Fx("sys.set_menu", MenuName(menu), "Ok") >>, result |-> "Ok"]

\* set_menu that lets go of the bound menu before it builds the new one.
sys_set_menu_ClearsFirst(s, menu, next, buildOk) ==
  IF menu = EmptyModel
  THEN [sys |-> [s EXCEPT !.menu = None], next |-> next,
        fx |-> << Fx("sys.set_menu", MenuName(menu), "Ok") >>, result |-> "Ok"]
  ELSE IF ~buildOk
  THEN [sys |-> [s EXCEPT !.menu = None], next |-> next,
        fx |-> << Fx("sys.set_menu", MenuName(menu), "OsError") >>, result |-> "OsError"]
  ELSE LET b == build_menu(menu, next)
       IN [sys |-> [s EXCEPT !.menu = Some(MenuSys(b))], next |-> b.next,
           fx |-> << Fx("sys.set_menu", MenuName(menu), "Ok") >>, result |-> "Ok"]

\* WinTrayIcon::set_menu.  buildOk: whether MenuBuilder::build succeeds.
sys_set_menu(s, menu, next, buildOk) ==
  IF menu = EmptyModel
  THEN [sys |-> [s EXCEPT !.menu = None], next |-> next,
        fx |-> << Fx("sys.set_menu", MenuName(menu), "Ok") >>, result |-> "Ok"]
  ELSE IF ~buildOk
  THEN [sys |-> s, next |-> next,
        fx |-> << Fx("sys.set_menu", MenuName(menu), "OsError") >>, result |-> "OsError"]
  ELSE LET b == build_menu(menu, next)
       IN [sys |-> [s EXCEPT !.menu = Some(MenuSys(b))], next |-> b.next,
           fx |-> << Fx("sys.set_menu", MenuName(menu), "Ok") >>, result |-> "Ok"]

\* set_icon without the comparison: every call reaches the native layer.
set_icon_NoCompare(b, s, icon, nativeOk) ==
  [builder |-> [b EXCEPT !.icon = Ok(icon)]] @@ sys_set_icon(s, icon, nativeOk)

\* TrayIcon::set_icon: set the icon if changed.
set_icon(b, s, icon, nativeOk) ==
  IF b.icon.ok /\ IconEq(b.icon.val, icon)
  THEN [builder |-> b, sys |-> s, fx |-> << >>, result |-> "Ok"]
  ELSE [builder |-> [b EXCEPT !.icon = Ok(icon)]] @@ sys_set_icon(s, icon, nativeOk)

\* TrayIcon::set_menu: set the menu if changed.
set_menu(b, s, menu, next, buildOk) ==
  IF b.menu.some /\ b.menu.val = menu
  THEN [builder |-> b, sys |-> s, next |-> next, fx |-> << >>, result |-> "Ok"]
  ELSE [builder |-> [b EXCEPT !.menu = Some(menu)]] @@ sys_set_menu(s, menu, next, buildOk)

\* ------------------------------------------------------------------- state

VARIABLES
  state,      \* lifecycle: "Uninitialized", "Running", "BuildFailed", "Dropped"
  builder,    \* TrayIconBuilder; after build() the TrayIcon's `builder` field
  sys,        \* the boxed WinTrayIcon (TrayIcon's `sys` field)
  chan,       \* the host's event channel: [kind, queue, alive]
  nextCmdId,  \* the menu builder's command-id counter
  userdata,   \* the window's GWL_USERDATA back-pointer
  window,     \* the native window: "none", "exists", "destroyed"
  posted,     \* messages posted to the window and not yet dispatched
  retired,    \* command ids of the native menus that set_menu has replaced
  last,       \* the operation of the most recent step and its result
  effects,    \* the external calls the most recent step made, in order
  thr         \* the pump thread inside winproc and a drop running beside it

vars == <<state, builder, sys, chan, nextCmdId, userdata, window, posted, retired,
          last, effects, thr>>

\* No message is inside winproc and no drop is under way.  pump: where the pump
\* thread is in winproc's default arm; msg: the message it handles; ptr: its
\* local window_ptr; drop: how far a drop has come; heap: what the released
\* box held; deref: what the last dereference of window_ptr found.
ThrIdle ==
  [pump |-> "idle", msg |-> << >>, ptr |-> NULL, drop |-> "none", heap |-> None,
   deref |-> "none"]

\* What is left of the TrayIcon's fields once the handle is dropped.
Freed == [freed |-> TRUE]

Op(op, result) ==
  [op |-> op, msg |-> 0, wparam |-> 0, lparam |-> 0, icon |-> None, menu |-> None,
   result |-> result]

\* The icon setters the host calls on a builder, in order.
GoodIcon == [op |-> "icon", arg |-> I1]
GoodBuffer == [op |-> "icon_from_buffer", arg |-> B1]
BadIcon == [op |-> "icon_from_buffer", arg |-> BadBuffer]

IconRuns == { << >>, << GoodIcon >>, << GoodBuffer >>, << BadIcon >>,
              << GoodIcon, BadIcon >>, << BadIcon, GoodIcon >> }

\* What `last` shows of a builder's icon setters: the last of them and its result.
LastIconCall(calls) ==
  IF calls = << >> THEN Op("new", "Ok")
  ELSE IF calls[Len(calls)].op = "icon"
  THEN [Op("icon", "Ok") EXCEPT !.icon = Some(calls[Len(calls)].arg)]
  ELSE Op("icon_from_buffer",
          IF from_buffer(calls[Len(calls)].arg).ok THEN "Ok"
          ELSE from_buffer(calls[Len(calls)].arg).err)

\* A fresh builder after any choice of its setters: icon setters or none,
\* menu(..) or none, each on_* or none, sender(..) of one channel kind or none.
Init ==
  /\ \E ics \in IconRuns,
        m \in {None, Some(M1)},
        oc \in {None, Some("EvClick")},
        od \in {None, Some("EvDoubleClick")},
        orc \in {None, Some("EvRightClick")},
        k \in Kinds,
        hasSender \in BOOLEAN :
       /\ builder =
            SenderCall(
              OnRightClickCall(
                OnDoubleClickCall(
                  OnClickCall(MenuCall(IconCalls(builder_new, ics), m), oc),
                  od),
                orc),
              IF hasSender THEN Some(k) ELSE None)
       /\ chan = [kind |-> k, queue |-> << >>, alive |-> TRUE]
       /\ last = LastIconCall(ics)
  /\ state = "Uninitialized"
  /\ sys = None
  /\ nextCmdId = FirstCmdId
  /\ userdata = NULL
  /\ window = "none"
  /\ posted = << >>
  /\ retired = {}
  /\ effects = << >>
  /\ thr = ThrIdle

\* The model builds a further menu only while the counter is below its bound.
CanBuild == nextCmdId < FirstCmdId + MaxCmdIds

\* TrayIconBuilder::build
Build ==
  /\ state = "Uninitialized"
  /\ \E buildOk \in BOOLEAN, createOk \in BOOLEAN :
       \E r \in {build_trayicon(builder, chan, nextCmdId, buildOk, createOk)} :
          /\ state' = IF r.res.ok THEN "Running" ELSE "BuildFailed"
          /\ sys' = IF r.res.ok THEN r.res.val ELSE None
          /\ chan' = r.w.chan
          /\ nextCmdId' = r.next
          /\ userdata' = IF r.res.ok THEN r.w.userdata ELSE NULL
          /\ window' = IF r.res.ok THEN r.w.window ELSE "none"
          /\ last' = Op("build", IF r.res.ok THEN "Ok" ELSE r.res.err)
          /\ effects' = r.w.fx
  /\ UNCHANGED <<thr, builder, posted, retired>>

\* TrayIcon::set_icon(icon)
SetIcon ==
  /\ state = "Running"
  /\ \E icon \in Icons, nativeOk \in BOOLEAN :
       \E r \in {set_icon(builder, sys, icon, nativeOk)} :
          /\ builder' = r.builder
          /\ sys' = r.sys
          /\ last' = [Op("set_icon", r.result) EXCEPT !.icon = Some(icon)]
          /\ effects' = r.fx
  /\ UNCHANGED <<thr, state, chan, nextCmdId, userdata, window, posted, retired>>

\* WinTrayIcon::set_tooltip(tooltip)
SetTooltip ==
  /\ state = "Running"
  /\ \E tooltip \in Tooltips, nativeOk \in BOOLEAN :
       \E r \in {sys_set_tooltip(sys, tooltip, nativeOk)} :
          /\ sys' = r.sys
          /\ last' = Op("set_tooltip", r.result)
          /\ effects' = r.fx
  /\ UNCHANGED <<thr, state, builder, chan, nextCmdId, userdata, window, posted, retired>>

\* TrayIcon::set_menu(menu)
SetMenu ==
  /\ state = "Running"
  /\ \E menu \in MenuModels, buildOk \in BOOLEAN :
       /\ menu # EmptyModel => CanBuild
       /\ \E r \in {set_menu(builder, sys, menu, nextCmdId, buildOk)} :
             /\ builder' = r.builder
             /\ sys' = r.sys
             /\ nextCmdId' = r.next
             /\ retired' = IF sys.menu.some /\ r.sys.menu # sys.menu
                           THEN retired \cup DOMAIN sys.menu.val.ids
                           ELSE retired
             /\ last' = [Op("set_menu", r.result) EXCEPT !.menu = Some(menu)]
             /\ effects' = r.fx
  /\ UNCHANGED <<thr, state, chan, userdata, window, posted>>

\* The messages the system, the shell and other programs send to the window:
\* the tray icon's mouse notifications, commands, the TaskbarCreated broadcast,
\* a close request (what taskkill sends to a process's windows) and others.
CmdParams == ((FirstCmdId - 1) .. nextCmdId) \cup {65536 + FirstCmdId}

EnvMessages ==
  {<<WM_USER_TRAYICON, 0, lp>> :
      lp \in {WM_LBUTTONUP, WM_RBUTTONUP, WM_LBUTTONDBLCLK, WM_MOUSEMOVE}}
  \cup {<<WM_COMMAND, wp, 0>> : wp \in CmdParams}
  \cup {<<TaskbarCreatedId, 0, 0>>, <<OtherRegisteredId, 0, 0>>, <<WM_TIMER, 0, 0>>,
        <<WM_CLOSE, 0, 0>>}

\* The model delivers a message only while an unbounded channel holds fewer
\* than MaxQueue undelivered events.
PumpBound == chan.kind = "Crossbeam" \/ ~chan.alive \/ Len(chan.queue) < MaxQueue

Dispatch(m) ==
  \E r \in {winproc([sys |-> sys, chan |-> chan, userdata |-> userdata, window |-> window],
                    TheHwnd, m[1], m[2], m[3])} :
     /\ sys' = r.sys
     /\ chan' = r.chan
     /\ userdata' = r.userdata
     /\ window' = r.window
     /\ last' = [Op("winproc", r.result) EXCEPT !.msg = m[1], !.wparam = m[2], !.lparam = m[3]]
     /\ effects' = r.fx

\* The pump dispatches a message of the system to winproc.
WinProc ==
  /\ window = "exists"
  /\ thr.pump = "idle"
  /\ PumpBound
  /\ \E m \in EnvMessages : Dispatch(m)
  /\ UNCHANGED <<thr, state, builder, nextCmdId, posted, retired>>

\* The pump dispatches the oldest posted message to winproc.
WinProcPosted ==
  /\ window = "exists"
  /\ thr.pump = "idle"
  /\ posted # << >>
  /\ Dispatch(Head(posted))
  /\ posted' = Tail(posted)
  /\ UNCHANGED <<thr, state, builder, nextCmdId, retired>>

\* impl Drop for WinTrayIcon: the owning handle goes out of scope.  PostMessageW
\* to a window that has been destroyed fails and queues nothing.
Drop ==
  /\ state = "Running"
  /\ thr.drop = "none"
  /\ state' = "Dropped"
  /\ builder' = Freed
  /\ sys' = Freed
  /\ userdata' = drop(sys).userdata
  /\ posted' = IF window = "exists" THEN posted \o drop(sys).post ELSE posted
  /\ last' = Op("drop", "")
  /\ effects' = drop(sys).fx
  /\ UNCHANGED <<thr, chan, nextCmdId, window, retired>>

\* The host takes the oldest event from its channel.
Recv ==
  /\ chan.alive
  /\ chan.queue # << >>
  /\ chan' = [chan EXCEPT !.queue = Tail(@)]
  /\ last' = Op("recv", Head(chan.queue))
  /\ effects' = << >>
  /\ UNCHANGED <<thr, state, builder, sys, nextCmdId, userdata, window, posted, retired>>

\* The host drops its receiver (or its event loop ends).
DropReceiver ==
  /\ chan.alive
  /\ chan' = [chan EXCEPT !.alive = FALSE, !.queue = << >>]
  /\ last' = Op("drop_receiver", "")
  /\ effects' = << >>
  /\ UNCHANGED <<thr, state, builder, sys, nextCmdId, userdata, window, posted, retired>>

\* ---- the same code with the handle dropped on a thread other than the pump's

\* winproc, default arm, first statement: GetWindowLongPtrW(hwnd, GWL_USERDATA)
\* into the local window_ptr.
PumpRead ==
  /\ window = "exists"
  /\ state \in {"Running", "Dropped"}
  /\ thr.pump = "idle"
  /\ PumpBound
  /\ \E m \in EnvMessages \ {<<WM_CLOSE, 0, 0>>} :
       thr' = [thr EXCEPT !.pump = "got_ptr", !.msg = m, !.ptr = userdata]
  /\ last' = Op("GetWindowLongPtrW", "")
  /\ effects' = << >>
  /\ UNCHANGED <<state, builder, sys, chan, nextCmdId, userdata, window, posted, retired>>

\* The local window_ptr points at a box that has been released.
Dangling == thr.ptr # NULL /\ thr.drop = "freed"

\* winproc, default arm, the rest: `if window_ptr != 0` dereference it and call
\* wndproc, else DefWindowProcW.  Dereferencing a released box is undefined:
\* the handler runs on what the memory still holds, or the process faults.
PumpCall ==
  /\ thr.pump = "got_ptr"
  /\ \E r \in {winproc([sys |-> IF Dangling THEN thr.heap.val ELSE sys, chan |-> chan,
                        userdata |-> thr.ptr, window |-> window],
                       TheHwnd, thr.msg[1], thr.msg[2], thr.msg[3])},
        outcome \in IF Dangling THEN {"stale", "crashed"} ELSE {"defined"} :
       /\ state' = IF outcome = "crashed" THEN "Crashed" ELSE state
       /\ window' = IF outcome = "crashed" THEN "none" ELSE window
       /\ sys' = IF outcome = "defined" THEN r.sys ELSE sys
       /\ chan' = IF outcome = "crashed" THEN chan ELSE r.chan
       /\ last' = [Op("winproc", IF outcome = "crashed" THEN "crashed" ELSE r.result)
                     EXCEPT !.msg = thr.msg[1], !.wparam = thr.msg[2], !.lparam = thr.msg[3]]
       /\ effects' = IF outcome = "crashed" THEN << >> ELSE r.fx
       /\ thr' = [thr EXCEPT !.pump = "idle", !.msg = << >>, !.ptr = NULL,
                             !.heap = IF outcome = "stale" THEN Some(r.sys) ELSE @,
                             !.deref = IF thr.ptr = NULL THEN "none"
                                       ELSE IF Dangling THEN "released" ELSE "live"]
  /\ UNCHANGED <<builder, nextCmdId, userdata, posted, retired>>

\* Drop::drop, first statement: self.notify_icon.remove()
DropRemove ==
  /\ state = "Running"
  /\ thr.drop = "none"
  /\ sys' = [sys EXCEPT !.notify_icon = NotifyRemove(@)]
  /\ thr' = [thr EXCEPT !.drop = "removed"]
  /\ last' = Op("drop", "remove")
  /\ effects' = << Fx("notify_icon.remove", "", "") >>
  /\ UNCHANGED <<state, builder, chan, nextCmdId, userdata, window, posted, retired>>

\* Drop::drop, second statement: SetWindowLongPtrW(self.hwnd, GWL_USERDATA, 0)
DropDetach ==
  /\ thr.drop = "removed"
  /\ userdata' = NULL
  /\ thr' = [thr EXCEPT !.drop = "detached"]
  /\ last' = Op("drop", "detach")
  /\ effects' = << Fx("SetWindowLongPtrW", "GWL_USERDATA", "") >>
  /\ UNCHANGED <<state, builder, sys, chan, nextCmdId, window, posted, retired>>

\* Drop::drop, third statement: PostMessageW(self.hwnd, WM_CLOSE, 0, 0)
DropPost ==
  /\ thr.drop = "detached"
  /\ posted' = IF window = "exists" THEN Append(posted, <<WM_CLOSE, 0, 0>>) ELSE posted
  /\ thr' = [thr EXCEPT !.drop = "posted"]
  /\ last' = Op("drop", "post")
  /\ effects' = << Fx("PostMessageW", "WM_CLOSE", "") >>
  /\ UNCHANGED <<state, builder, sys, chan, nextCmdId, userdata, window, retired>>

\* After Drop::drop returns the box and the TrayIcon's fields are released.
DropFree ==
  /\ thr.drop = "posted"
  /\ state' = IF state = "Crashed" THEN state ELSE "Dropped"
  /\ builder' = Freed
  /\ sys' = Freed
  /\ thr' = [thr EXCEPT !.drop = "freed", !.heap = Some(sys)]
  /\ last' = Op("drop", "")
  /\ effects' = << >>
  /\ UNCHANGED <<chan, nextCmdId, userdata, window, posted, retired>>

Next ==
  \/ Build
  \/ SetIcon
  \/ SetTooltip
  \/ SetMenu
  \/ WinProc
  \/ WinProcPosted
  \/ Drop
  \/ Recv
  \/ DropReceiver
  \/ PumpRead
  \/ PumpCall
  \/ DropRemove
  \/ DropDetach
  \/ DropPost
  \/ DropFree

Spec == Init /\ [][Next]_vars

\* The icon and the menu/channel state are read and written by disjoint
\* operations, so the properties are checked on two projections of Next.

\* Icon and tooltip updates of a tray icon from build to teardown.
NextIcon ==
  \/ Build
  \/ SetIcon
  \/ SetTooltip
  \/ WinProcPosted
  \/ Drop

SpecIcon == Init /\ [][NextIcon]_vars

\* Menu updates, message dispatch and the event channel.
NextDispatch ==
  \/ Build
  \/ SetMenu
  \/ WinProc
  \/ WinProcPosted
  \/ Drop
  \/ Recv
  \/ DropReceiver

SpecDispatch == Init /\ [][NextDispatch]_vars

\* Message handling on the pump thread, statement by statement, beside a drop
\* of the owning handle on another thread.
NextThreads ==
  \/ Build
  \/ PumpRead
  \/ PumpCall
  \/ WinProcPosted
  \/ DropRemove
  \/ DropDetach
  \/ DropPost
  \/ DropFree

SpecThreads == Init /\ [][NextThreads]_vars

\* Build, message dispatch and drop with a host whose pump keeps running:
\* a message posted to the window is dispatched in the end.
NextTeardown ==
  \/ Build
  \/ WinProc
  \/ WinProcPosted
  \/ Drop

SpecTeardown == Init /\ [][NextTeardown]_vars /\ WF_vars(WinProcPosted)

\* ------------------------------------------------------------ properties

\* The send calls a binding causes: one for a bound event, none otherwise.
Sends(o) == IF o.some THEN << Fx("send", o.val, "") >> ELSE << >>

ShowMenu(m) == << Fx("GetCursorPos", "", ""),
                  Fx("SetForegroundWindow", "hwnd", ""),
                  Fx("track", m.name, "") >>

IsGesture(l, lp) == l.op = "winproc" /\ l.msg = WM_USER_TRAYICON /\ l.lparam = lp

NativeIconUpdates(fx) == Len(Calls(fx, "notify_icon.set_icon"))

Elems(q) == {q[i] : i \in 1..Len(q)}

\* C1: when the native icon update fails inside set_icon, the call returns an
\* error and the icon stored for change detection is the icon the shell shows.
C1_FailedSetIconKeepsStoredIcon ==
  (last.op = "set_icon" /\ NativeIconUpdates(effects) = 1 /\ effects[1].ret = "false")
    => /\ last.result # "Ok"
       /\ builder.icon.ok
       /\ builder.icon.val.sys = sys.notify_icon.icon

\* C2 as stated: after set_menu is called with an empty model no menu is bound,
\* and a right-click-release that follows shows no menu and sends no event,
\* whatever gestures are bound.
C2_EmptyMenuRightClickSilent ==
  [][ (state = "Running" /\ last.op = "set_menu" /\ last.menu.val = EmptyModel)
        => /\ ~sys.menu.some
           /\ IsGesture(last', WM_RBUTTONUP) => effects' = << >> ]_vars

\* C2 amended: after set_menu is called with an empty model (and for as long as
\* the empty model is the stored one) no menu is bound, and a
\* right-click-release shows no menu and sends nothing but the on_right_click
\* event, which it sends exactly when on_right_click is bound.
C2_EmptyMenuRightClickNoMenu ==
  [][ (state = "Running"
         /\ (\/ (last.op = "set_menu" /\ last.menu.val = EmptyModel)
             \/ builder.menu = Some(EmptyModel)))
        => /\ ~sys.menu.some
           /\ IsGesture(last', WM_RBUTTONUP) => effects' = Sends(sys.on_right_click) ]_vars

\* A right click with on_right_click bound, after set_menu(empty) replaced a menu.
C2_Witness ==
  /\ state = "Running"
  /\ builder.menu = Some(EmptyModel)
  /\ retired # {}
  /\ IsGesture(last, WM_RBUTTONUP)
  /\ sys.on_right_click.some
  /\ effects = << Fx("send", "EvRightClick", "") >>

\* C3: a set_icon call whose Icon equals the stored one performs no native
\* update, one whose Icon differs performs exactly one, and the second of two
\* consecutive calls with the same Icon performs none.
C3_SetIconUpdatesIffChanged ==
  [][ last'.op = "set_icon"
        => /\ IF IconEq(builder.icon.val, last'.icon.val)
              THEN NativeIconUpdates(effects') = 0
              ELSE NativeIconUpdates(effects') = 1
           /\ (last.op = "set_icon" /\ IconEq(last.icon.val, last'.icon.val))
                => NativeIconUpdates(effects') = 0 ]_vars

\* A third distinct icon has just been set: stored I1, then I2, then I3.
C3_Witness ==
  /\ last.op = "set_icon"
  /\ last.icon.val = I3
  /\ effects = << Fx("notify_icon.set_icon", "h3", "true") >>
  /\ builder.icon.val = I3

\* C4: a right-click-release with a menu bound sends the on_right_click event
\* once and then displays the menu when on_right_click is bound, and only
\* displays the menu when it is not.
C4_RightClickSendsThenShowsMenu ==
  (state = "Running" /\ IsGesture(last, WM_RBUTTONUP) /\ sys.menu.some)
    => /\ effects = Sends(sys.on_right_click) \o ShowMenu(sys.menu.val)
       /\ last.result = "0"

\* A right click with both bound: the event is in the queue and the menu shown.
C4_Witness ==
  /\ state = "Running"
  /\ IsGesture(last, WM_RBUTTONUP)
  /\ sys.menu.some
  /\ sys.on_right_click.some
  /\ chan.queue = << "EvRightClick" >>
  /\ Len(effects) = 4

\* C5: a left-click-release sends exactly the on_click event and a double click
\* exactly the on_double_click event, nothing if that binding is absent; no
\* gesture sends the event of another gesture or of a menu item.
C5_GestureSendsItsOwnBinding ==
  (state = "Running" /\ last.op = "winproc" /\ last.msg = WM_USER_TRAYICON)
    => /\ last.result = "0"
       /\ last.lparam = WM_LBUTTONUP => effects = Sends(sys.on_click)
       /\ last.lparam = WM_LBUTTONDBLCLK => effects = Sends(sys.on_double_click)
       /\ last.lparam = WM_RBUTTONUP => Calls(effects, "send") = Sends(sys.on_right_click)
       /\ last.lparam \notin {WM_LBUTTONUP, WM_LBUTTONDBLCLK, WM_RBUTTONUP} => effects = << >>

\* A double click with both left-button bindings bound.
C5_Witness ==
  /\ state = "Running"
  /\ IsGesture(last, WM_LBUTTONDBLCLK)
  /\ sys.on_click.some
  /\ sys.on_double_click.some
  /\ effects = << Fx("send", "EvDoubleClick", "") >>

\* C6: a menu command (high word 0) whose id is in the bound menu's table sends
\* exactly the event mapped to it; any other id, or any command with no menu
\* bound, sends nothing; the message is handled either way.
C6_CommandSendsMappedEvent ==
  (state = "Running" /\ last.op = "winproc" /\ last.msg = WM_COMMAND
     /\ last.wparam \in 0..65535)
    => /\ last.result = "0"
       /\ IF sys.menu.some /\ last.wparam \in DOMAIN sys.menu.val.ids
          THEN effects = << Fx("send", sys.menu.val.ids[last.wparam], "") >>
          ELSE effects = << >>

\* The command of M2's nested item "A", built second, has sent EvA.
C6_Witness ==
  /\ state = "Running"
  /\ last.op = "winproc"
  /\ last.msg = WM_COMMAND
  /\ sys.menu.some
  /\ sys.menu.val.menu = M2
  /\ last.wparam = FirstCmdId + 5
  /\ effects = << Fx("send", "EvA", "") >>

\* C7: once set_menu has replaced a menu, a command carrying an id of the
\* replaced menu sends no event.
C7_StaleCommandIgnored ==
  (state = "Running" /\ last.op = "winproc" /\ last.msg = WM_COMMAND
     /\ last.wparam \in retired)
    => /\ effects = << >>
       /\ last.result = "0"

\* A command of the replaced menu arrives while another menu is bound.
C7_Witness ==
  /\ state = "Running"
  /\ last.op = "winproc"
  /\ last.msg = WM_COMMAND
  /\ last.wparam \in retired
  /\ sys.menu.some
  /\ effects = << >>

\* C8: when the native icon-set or tooltip-set call fails, the update
\* operation returns Error::OsError.
C8_NativeFailureIsOsError ==
  (last.op \in {"set_icon", "set_tooltip"} /\ Len(effects) = 1 /\ effects[1].ret = "false")
    => last.result = "OsError"

\* C9: every TaskbarCreated broadcast received while Running causes exactly
\* one add call, and no other message causes any.
C9_TaskbarCreatedReAddsOnce ==
  (state = "Running" /\ last.op = "winproc")
    => /\ Len(Calls(effects, "add")) = (IF last.msg = TaskbarCreatedId THEN 1 ELSE 0)
       /\ last.msg = TaskbarCreatedId
            => (effects = << Fx("add", "hwnd", "") >> /\ last.result = "0"
                /\ sys.notify_icon.added /\ sys.notify_icon.hwnd = TheHwnd)

\* The broadcast has been handled.
C9_Witness ==
  /\ state = "Running"
  /\ last.op = "winproc"
  /\ last.msg = TaskbarCreatedId
  /\ effects = << Fx("add", "hwnd", "") >>

\* The event a gesture forwards, if bound.
Binding(s, lp) ==
  IF lp = WM_LBUTTONUP THEN s.on_click
  ELSE IF lp = WM_LBUTTONDBLCLK THEN s.on_double_click
  ELSE IF lp = WM_RBUTTONUP THEN s.on_right_click
  ELSE None

\* C10: with the receiver dropped or the bounded queue full, a handler that
\* sends still returns 0 and leaves the dispatcher and the channel as they
\* were, and gestures keep being dispatched to send; for every channel kind.
C10_FailedSendIsSwallowed ==
  [][ (state = "Running" /\ last'.op = "winproc" /\ SendFails(chan))
        => /\ Calls(effects', "send") # << >>
                => /\ last'.result = "0"
                   /\ chan' = chan
                   /\ sys' = sys
                   /\ userdata' = userdata
                   /\ window' = window
                   /\ state' = state
           /\ last'.msg = WM_USER_TRAYICON
                => Calls(effects', "send") = Sends(Binding(sys, last'.lparam)) ]_vars

\* A send into a full bounded queue: the event sent is not in the queue.
C10_Witness ==
  /\ state = "Running"
  /\ last.op = "winproc"
  /\ last.result = "0"
  /\ chan.kind = "Crossbeam"
  /\ chan.alive
  /\ Len(chan.queue) = MaxQueue
  /\ Calls(effects, "send") # << >>
  /\ Calls(effects, "send")[1].arg \notin Elems(chan.queue)

\* What build() has allocated when it fails on its configuration: nothing.
NothingAllocated ==
  /\ effects' = << >>
  /\ sys' = None
  /\ window' = "none"
  /\ userdata' = NULL
  /\ nextCmdId' = nextCmdId

\* C11 as stated: build() fails with IconMissing when no icon was supplied or
\* the last icon supplied was an invalid buffer, and with SenderMissing when
\* (the icon being there) no sender was supplied; nothing native is allocated.
C11_ConfigErrorsAreIconMissing ==
  [][ last'.op = "build"
        => /\ (last.op = "new" \/ (last.op = "icon_from_buffer" /\ last.result # "Ok"))
                => (last'.result = "IconMissing" /\ NothingAllocated)
           /\ (builder.icon.ok /\ ~builder.sender.some)
                => (last'.result = "SenderMissing" /\ NothingAllocated) ]_vars

\* C11 amended: build() fails with IconMissing when no icon was ever supplied,
\* with IconLoadingFailed when the last icon supplied was an invalid buffer,
\* and with SenderMissing when (the icon being there) no sender was supplied;
\* nothing native is allocated in any of these cases.
C11_ConfigErrorsAtBuild ==
  [][ last'.op = "build"
        => /\ last.op = "new" => (last'.result = "IconMissing" /\ NothingAllocated)
           /\ (last.op = "icon_from_buffer" /\ last.result # "Ok")
                => (last'.result = "IconLoadingFailed" /\ NothingAllocated)
           /\ (builder.icon.ok /\ ~builder.sender.some)
                => (last'.result = "SenderMissing" /\ NothingAllocated) ]_vars

\* build() has failed on a builder whose last icon setter got an invalid buffer
\* and which has a sender.
C11_Witness ==
  /\ state = "BuildFailed"
  /\ last.op = "build"
  /\ last.result = "IconLoadingFailed"
  /\ builder.sender.some
  /\ effects = << >>

\* C12: whatever the interleaving of a drop on another thread with the pump
\* thread's handling of a message, no handler reads or writes dispatcher state
\* that has been released, and the process does not fault.
C12_NoHandlerAfterRelease ==
  /\ thr.deref # "released"
  /\ state # "Crashed"

\* The calls of a teardown, in order.
TeardownCalls ==
  << Fx("notify_icon.remove", "", ""),
     Fx("SetWindowLongPtrW", "GWL_USERDATA", ""),
     Fx("PostMessageW", "WM_CLOSE", "") >>

Removes(fx) == Calls(fx, "notify_icon.remove")

\* C13 as stated: the drop of the owning handle removes the registration,
\* detaches the back-pointer and posts the close request, in this order and
\* each once, and remove() is invoked at no other point of the lifecycle.
C13_RemoveOnlyAtHandleDrop ==
  /\ last.op = "drop" => effects = TeardownCalls
  /\ Removes(effects) # << >> => last.op = "drop"

\* C13 amended: the drop of the owning handle happens once, from Running, and
\* makes exactly the calls remove, detach, post in this order, leaving the
\* back-pointer zero and the close request in the window's queue; the only
\* other step that invokes remove() is a build() that fails at window
\* creation, which makes the same three calls on the registration it never
\* added.
C13_TeardownSequence ==
  [][ /\ last'.op = "drop"
           => /\ state = "Running" /\ state' = "Dropped"
              /\ effects' = TeardownCalls
              /\ userdata' = NULL
              /\ window = "exists" => posted' = Append(posted, <<WM_CLOSE, 0, 0>>)
      /\ (state = "Running" /\ state' # "Running") => last'.op = "drop"
      /\ state \in {"Dropped", "BuildFailed"} => state' = state
      /\ Removes(effects') # << >>
           => \/ last'.op = "drop"
              \/ /\ last'.op = "build" /\ last'.result = "OsError"
                 /\ state' = "BuildFailed"
                 /\ effects' = TeardownCalls ]_vars

\* The handle of a tray icon that handled messages has been dropped.
C13_Witness ==
  /\ state = "Dropped"
  /\ last.op = "drop"
  /\ effects = TeardownCalls
  /\ userdata = NULL
  /\ posted = << <<WM_CLOSE, 0, 0>> >>
  /\ chan.queue # << >>

\* The lifecycle state of the tray window.  Created, the window allocated and
\* its creation message not yet handled, lies inside build(): CreateWindowExW
\* returns after the creation message has been handled.
Phase ==
  IF window = "none" THEN "Uninitialized"
  ELSE IF window = "destroyed" \/ state = "Dropped" THEN "Destroyed"
  ELSE "Running"

\* The calls of a successful CreateWindowExW: WM_NCCREATE goes to
\* DefWindowProcW, WM_CREATE to the instance handler.
CreationCalls ==
  << Fx("DefWindowProcW", "", ""),
     Fx("SetWindowLongPtrW", "GWL_USERDATA", "window"),
     Fx("add", "hwnd", ""),
     Fx("RegisterWindowMessageA", "TaskbarCreated", "") >>

\* C14: the lifecycle only moves Uninitialized -> (Created ->) Running ->
\* Destroyed; the step to Running is the handling of the creation message,
\* which sets hwnd and the back-pointer first and then adds the icon (for that
\* hwnd) and registers the taskbar message, each once; the taskbar message is
\* registered and the back-pointer set at no other step, and nothing is added
\* before.
C14_LifecycleAndCreation ==
  [][ /\ <<Phase, Phase'>> \in { <<"Uninitialized", "Uninitialized">>,
                                 <<"Uninitialized", "Running">>,
                                 <<"Running", "Running">>,
                                 <<"Running", "Destroyed">>,
                                 <<"Destroyed", "Destroyed">> }
      /\ (Phase = "Uninitialized" /\ Phase' = "Running")
           => /\ last'.op = "build" /\ last'.result = "Ok"
              /\ effects' = CreationCalls
              /\ sys'.hwnd = TheHwnd
              /\ userdata' = WindowPtr
              /\ sys'.notify_icon.added /\ sys'.notify_icon.hwnd = TheHwnd
              /\ sys'.msg_taskbarcreated = Some(TaskbarCreatedId)
      /\ (Calls(effects', "RegisterWindowMessageA") # << >>
            \/ Fx("SetWindowLongPtrW", "GWL_USERDATA", "window") \in Elems(effects'))
           => (Phase = "Uninitialized" /\ Phase' = "Running")
      /\ Calls(effects', "add") # << >> => Phase' = "Running" ]_vars

\* build() has just returned the handle of a tray icon with a menu.
C14_Witness ==
  /\ Phase = "Running"
  /\ last.op = "build"
  /\ effects = CreationCalls
  /\ sys.menu.some
  /\ sys.notify_icon.hwnd = TheHwnd

\* C15: the dispatcher binds at most one native menu: a set_menu that builds
\* a new tree binds it in place of the old one, and only when the build has
\* succeeded; a set_menu whose build fails with OsError leaves the old
\* menu bound, and a right-click that follows still displays it.
C15_OldMenuKeptUntilNewBuilt ==
  [][ /\ (last'.op = "set_menu" /\ last'.result = "OsError")
           => (sys'.menu = sys.menu /\ last'.menu.val # EmptyModel)
      /\ (last'.op = "set_menu" /\ sys'.menu # sys.menu /\ sys'.menu.some)
           => /\ last'.result = "Ok"
              /\ sys'.menu.val.menu = last'.menu.val
      /\ (state = "Running" /\ last.op = "set_menu" /\ last.result = "OsError"
            /\ sys.menu.some /\ IsGesture(last', WM_RBUTTONUP))
           => effects' = Sends(sys.on_right_click) \o ShowMenu(sys.menu.val) ]_vars

\* A right click displays M1 while the model stored by a failed set_menu is M2.
C15_Witness ==
  /\ state = "Running"
  /\ IsGesture(last, WM_RBUTTONUP)
  /\ builder.menu = Some(M2)
  /\ sys.menu.some
  /\ sys.menu.val.menu = M1
  /\ Fx("track", "A", "") \in Elems(effects)

\* The messages wndproc has an arm for.
OwnMessages == {WM_CREATE, WM_USER_TRAYICON, WM_COMMAND, TaskbarCreatedId}

\* C16: a message that reaches the instance handler is reported as handled
\* (0) or handed to DefWindowProcW, never anything else; a message other than
\* creation, the tray message, a command and TaskbarCreated is handed to
\* DefWindowProcW and changes nothing; a gesture or command is handled and
\* leaves the menu, the three bindings and the registration as they were.
C16_HandledOrDelegated ==
  [][ (state = "Running" /\ userdata # NULL /\ last'.op = "winproc"
         /\ last'.msg # WM_CLOSE)
        => /\ last'.result \in {"0", "DefWindowProcW"}
           /\ last'.msg \notin OwnMessages
                => /\ last'.result = "DefWindowProcW"
                   /\ effects' = << Fx("DefWindowProcW", "", "") >>
                   /\ sys' = sys /\ chan' = chan
           /\ last'.msg \in OwnMessages
                => /\ last'.result = "0"
                   /\ Calls(effects', "DefWindowProcW") = << >>
           /\ last'.msg \in {WM_USER_TRAYICON, WM_COMMAND}
                => /\ sys'.menu = sys.menu
                   /\ sys'.on_click = sys.on_click
                   /\ sys'.on_double_click = sys.on_double_click
                   /\ sys'.on_right_click = sys.on_right_click
                   /\ sys'.notify_icon = sys.notify_icon ]_vars

\* A registered message that is not TaskbarCreated went to DefWindowProcW.
C16_Witness ==
  /\ state = "Running"
  /\ last.op = "winproc"
  /\ last.msg = OtherRegisteredId
  /\ last.result = "DefWindowProcW"
  /\ sys.menu.some
  /\ chan.queue # << >>

\* C17: the drop call returns having only posted the close message (it
\* leaves the window as it is); if the pump keeps dispatching, the window is
\* destroyed in the end; and the close message is handled by DestroyWindow
\* alone, whatever the back-pointer is, without a use of the dispatcher state.
C17_TeardownCompletes ==
  /\ [][ /\ last'.op = "drop"
              => /\ window' = window
                 /\ window = "exists" => posted' = Append(posted, <<WM_CLOSE, 0, 0>>)
         /\ (last'.op = "winproc" /\ last'.msg = WM_CLOSE)
              => /\ window' = "destroyed"
                 /\ effects' = << Fx("DestroyWindow", "hwnd", "") >>
                 /\ last'.result = "0"
                 /\ sys' = sys /\ chan' = chan /\ userdata' = userdata ]_vars
  /\ (state = "Dropped") ~> (window = "destroyed")

\* The close message of a dropped tray icon has destroyed the window.
C17_Witness ==
  /\ state = "Dropped"
  /\ window = "destroyed"
  /\ last.op = "winproc"
  /\ last.msg = WM_CLOSE
  /\ posted = << >>
  /\ sys = Freed

\* C18: while the tray icon runs, the menu model stored for change detection
\* is the model of the native menu bound in the dispatcher: no model or the
\* empty model exactly when no menu is bound, and otherwise the model the
\* bound tree was built from; so a set_menu repeated after a failure is not
\* skipped as unchanged.
C18_StoredModelIsBoundMenu ==
  state = "Running"
    => /\ (~builder.menu.some \/ builder.menu.val = EmptyModel) <=> ~sys.menu.some
       /\ sys.menu.some => sys.menu.val.menu = builder.menu.val
       /\ (last.op = "set_menu" /\ sys.menu.some /\ sys.menu.val.menu # last.menu.val)
            => effects # << >>

\* C19: the window is not destroyed while the tray icon runs with its icon
\* registered: a close message that does not come from the handle's drop
\* leaves the window of a Running tray icon in place.
C19_WindowOutlivesRegistration ==
  (state = "Running" /\ sys.notify_icon.added) => window # "destroyed"

\* C20 as stated: a message delivered before the creation message or after
\* the handle has been dropped sends no event, leaves the dispatcher state
\* alone and goes to DefWindowProcW.
C20_UnboundMessagesGoToDefault ==
  [][ /\ (last'.op = "build" /\ last'.result = "Ok")
           => /\ effects'[1] = Fx("DefWindowProcW", "", "")
              /\ Calls(effects', "send") = << >>
              /\ chan' = chan
      /\ (state = "Dropped" /\ last'.op = "winproc")
           => /\ last'.result = "DefWindowProcW"
              /\ effects' = << Fx("DefWindowProcW", "", "") >>
              /\ chan' = chan /\ sys' = sys /\ builder' = builder ]_vars

\* C20 amended: such a message sends no event and leaves the dispatcher state
\* alone; it goes to DefWindowProcW, except the close message, which winproc
\* answers with DestroyWindow before it looks at the back-pointer.
C20_UnboundMessagesTouchNothing ==
  [][ /\ (last'.op = "build" /\ last'.result = "Ok")
           => /\ effects'[1] = Fx("DefWindowProcW", "", "")
              /\ Calls(effects', "send") = << >>
              /\ chan' = chan
      /\ (state = "Dropped" /\ last'.op = "winproc")
           => /\ userdata = NULL
              /\ chan' = chan /\ sys' = sys /\ builder' = builder
              /\ IF last'.msg = WM_CLOSE
                 THEN /\ last'.result = "0"
                      /\ effects' = << Fx("DestroyWindow", "hwnd", "") >>
                 ELSE /\ last'.result = "DefWindowProcW"
                      /\ effects' = << Fx("DefWindowProcW", "", "") >> ]_vars

\* A command of the menu arrived after the drop and went to DefWindowProcW.
C20_Witness ==
  /\ state = "Dropped"
  /\ window = "exists"
  /\ last.op = "winproc"
  /\ last.msg = WM_COMMAND
  /\ last.wparam = FirstCmdId
  /\ nextCmdId > FirstCmdId
  /\ last.result = "DefWindowProcW"
  /\ chan.alive

====
